---- MODULE Spec2Model ----
(***************************************************************************)
(* Sentinel: the pool reconciliation of probe.py (get_p2pool_stats) and    *)
(* the SQLite metrics store of database.py (SentinelDB).                   *)
(*                                                                         *)
(* PoolSpec : one run of get_p2pool_stats, request by request.             *)
(* Spec     : the store under sequences of SentinelDB calls.               *)
(***************************************************************************)
EXTENDS Integers, Sequences, FiniteSets, TLC

VARIABLES
    \* ---- get_p2pool_stats (probe.py) ----
    pc,              \* position in get_p2pool_stats
    requests,        \* the HTTP requests issued so far, each with how it went
    shares_data,     \* probe.py:96, the 'shares' array of the miner-info body
    total_shares,    \* probe.py:97,110
    current_height,  \* probe.py:129
    miner_shares,    \* probe.py:138, the body of the miner-shares response
    idx,             \* position of the for loop of probe.py:148 in miner_shares
    examined,        \* indices of miner_shares the loop body has run on
    active_shares,   \* probe.py:142
    active_uncles,   \* probe.py:143
    blocks_found,    \* probe.py:163
    payouts_count,   \* probe.py:176
    result,          \* the returned tuple, as a record
    \* ---- SentinelDB (database.py) ----
    miners,          \* table miners, a set of rows
    miner_history,   \* table miner_history
    p2pool_stats,    \* table p2pool_stats
    p2pool_history,  \* table p2pool_history
    alerts,          \* table alerts
    seq,             \* sqlite_sequence: last AUTOINCREMENT id of each table
    now,             \* the wall clock, <<day, fraction>>
    upserts_ok,      \* number of upsert_miner calls that returned normally
    purged,          \* TRUE once cleanup_old_data took a row out of miner_history
    deleted,         \* TRUE once the operator's delete took a row out of miner_history
    live_hosts,      \* hosts upserted and not deleted by the operator since
    live_addrs,      \* addresses upserted
    \* ---- arp_spoof_detector (nids.py) ----
    arp_table,       \* nids.py:19, the in-memory table: ip -> mac
    arp_entries,     \* the durable ARP records behind get_arp_entry / update_arp_entry
    events,          \* the ARP events handled so far, each with what became of it
    \* ---- scan_network (probe.py) ----
    scan_pc,         \* position in scan_network
    network_range,   \* probe.py:314, the argument
    todo,            \* probe.py:333, what network.hosts() has still to yield
    probes,          \* the hosts get_monero_hashrate was called for, in order
    scan_response,   \* what the miner API answered to the probe in progress
    scan_hashrate,   \* probe.py:335, the hashrate of the probe in progress
    found,           \* probe.py:332
    in_flight,       \* the hosts whose probe was issued and has not returned
    lost,            \* the hosts whose upsert_miner raised, probe.py:342-343
    \* ---- get_system_status (probe.py) ----
    status_pc,       \* position in get_system_status
    status_call,     \* the arguments of the call in progress
    status_result,   \* probe.py:292, what get_p2pool_stats returned to the call
    \* ---- concurrent upsert_miner calls (database.py) ----
    conns,           \* the connection of each caller: its position and its locals
    lock,            \* the connection that holds the write lock of the store, or ""
    observed         \* the miners and miner_history tables as a reader last saw them

pool_vars == <<pc, requests, shares_data, total_shares, current_height, miner_shares, idx,
               examined, active_shares, active_uncles, blocks_found,
               payouts_count, result>>

db_vars == <<miners, miner_history, p2pool_stats, p2pool_history, alerts, seq,
             now, upserts_ok, purged, deleted, live_hosts, live_addrs>>

nids_vars == <<arp_table, arp_entries, events>>

scan_vars == <<scan_pc, network_range, todo, probes, scan_response, scan_hashrate,
               found, in_flight, lost>>

status_vars == <<status_pc, status_call, status_result>>

conc_vars == <<conns, lock, observed>>

vars == <<pool_vars, db_vars, nids_vars, scan_vars, status_vars, conc_vars>>

----------------------------------------------------------------------------
\* Values

\* Python None, as a value outside every count and measurement.
None == -1

\* The "N/A" marker of probe.py, as a value outside every count.
NA == -2

\* config.P2POOL_WINDOW_SIZE
P2POOL_WINDOW_SIZE == 2160

\* dict.get(key, default)
Get(d, key, default) == IF key \in DOMAIN d THEN d[key] ELSE default

\* Longest miner-shares list the pool API answers with.
MaxShares == 3

RECURSIVE SeqsUpTo(_, _)
SeqsUpTo(S, n) ==
    IF n = 0 THEN {<<>>}
    ELSE LET shorter == SeqsUpTo(S, n - 1)
         IN  shorter \cup {Append(s, x) : s \in {t \in shorter : Len(t) = n - 1}, x \in S}

\* Entries of the miner-shares response: side_height and uncle may be missing.
ShareSet ==
    [side_height : {-2000, 500, 1000}, uncle : BOOLEAN]
      \cup {[uncle |-> TRUE], [side_height |-> 1000]}

\* The 'shares' array of the miner-info response.
SharesDataSet ==
    { <<>>,
      <<[shares |-> 1]>>,
      <<[shares |-> 1], [shares |-> 7, uncles |-> 1]>>,
      <<[shares |-> 1], [uncles |-> 1]>> }

\* Bodies of the latest-share response (api/shares?limit=1).
LastShareSet ==
    { <<>>,
      <<[side_height |-> 1000]>>,
      <<[side_height |-> 2660]>>,
      <<[timestamp |-> 1]>> }

\* Ways a requests.get / raise_for_status / json / processing step can fail.
Failures == {"timeout", "connection_error", "http_error", "bad_json", "bad_shape"}

\* The tuple of six None.
Absent ==
    [blocks_found |-> None, shares_held |-> None, payouts_sent |-> None,
     active_shares |-> None, active_uncles |-> None, total_shares |-> None]

ResultTuple(b, sh, p, a, u, t) ==
    [blocks_found |-> b, shares_held |-> sh, payouts_sent |-> p,
     active_shares |-> a, active_uncles |-> u, total_shares |-> t]

----------------------------------------------------------------------------
\* get_p2pool_stats

PoolInit ==
    /\ pc = "miner_info"
    /\ requests = <<>>
    /\ shares_data = <<>>
    /\ total_shares = 0
    /\ current_height = 0
    /\ miner_shares = <<>>
    /\ idx = 1
    /\ examined = {}
    /\ active_shares = 0
    /\ active_uncles = 0
    /\ blocks_found = 0
    /\ payouts_count = 0
    /\ result = Absent

\* Handlers for the requests exceptions only, without probe.py:223.
OuterExceptRequestsOnly(failure) ==
    IF failure = "bad_shape"
    THEN [pc |-> "raised", result |-> Absent]
    ELSE [pc |-> "done", result |-> Absent]

\* The except clauses of probe.py:217-227: every exception kind returns the
\* tuple of None.  "pc" is "done" on a return and "raised" on a propagation.
OuterExcept(failure) == [pc |-> "done", result |-> Absent]

\* An entry of the request log: "ok" (for the latest-share request "empty"
\* when the body is an empty list) or "fail".
Request(name, outcome) == [name |-> name, outcome |-> outcome]

\* A primary request fails: control leaves the try block.
PrimaryFails(name) ==
    /\ requests' = Append(requests, Request(name, "fail"))
    /\ \E f \in Failures :
         /\ pc' = OuterExcept(f).pc
         /\ result' = OuterExcept(f).result

\* probe.py:96-111
TotalSharesOf(data) ==
    IF Len(data) > 1 THEN Get(data[2], "shares", 0) ELSE 0

\* Step 1, probe.py:89-113
MinerInfoOk ==
    /\ pc = "miner_info"
    /\ requests' = Append(requests, Request("miner_info", "ok"))
    /\ shares_data' \in SharesDataSet
    /\ total_shares' = TotalSharesOf(shares_data')
    /\ pc' = "last_share"
    /\ UNCHANGED <<current_height, miner_shares, idx, examined, active_shares,
                   active_uncles, blocks_found, payouts_count, result>>

MinerInfoFails ==
    /\ pc = "miner_info"
    /\ PrimaryFails("miner_info")
    /\ UNCHANGED <<shares_data, total_shares, current_height, miner_shares, idx, examined,
                   active_shares, active_uncles, blocks_found, payouts_count>>

\* An empty network answered without the total read from miner-info.
EmptyNetworkNoTotal(total) == ResultTuple(NA, 0, NA, 0, 0, 0)

\* probe.py:124-127
EmptyNetworkResult(total) == ResultTuple(NA, 0, NA, 0, 0, total)

\* Step 2, probe.py:115-131
LastShareOk ==
    /\ pc = "last_share"
    /\ \E ls_data \in LastShareSet :
         IF ls_data = <<>>
         THEN /\ requests' = Append(requests, Request("last_share", "empty"))
              /\ result' = EmptyNetworkResult(total_shares)
              /\ pc' = "done"
              /\ UNCHANGED current_height
         ELSE /\ requests' = Append(requests, Request("last_share", "ok"))
              /\ current_height' = Get(ls_data[1], "side_height", 0)
              /\ pc' = "miner_shares"
              /\ UNCHANGED result
    /\ UNCHANGED <<shares_data, total_shares, miner_shares, idx, examined, active_shares,
                   active_uncles, blocks_found, payouts_count>>

LastShareFails ==
    /\ pc = "last_share"
    /\ PrimaryFails("last_share")
    /\ UNCHANGED <<shares_data, total_shares, current_height, miner_shares, idx, examined,
                   active_shares, active_uncles, blocks_found, payouts_count>>

\* Step 3, probe.py:133-146
MinerSharesOk ==
    /\ pc = "miner_shares"
    /\ requests' = Append(requests, Request("miner_shares", "ok"))
    /\ miner_shares' \in SeqsUpTo(ShareSet, MaxShares)
    /\ idx' = 1
    /\ active_shares' = 0
    /\ active_uncles' = 0
    /\ pc' = "walk"
    /\ UNCHANGED <<shares_data, total_shares, current_height, examined, blocks_found,
                   payouts_count, result>>

MinerSharesFails ==
    /\ pc = "miner_shares"
    /\ PrimaryFails("miner_shares")
    /\ UNCHANGED <<shares_data, total_shares, current_height, miner_shares, idx, examined,
                   active_shares, active_uncles, blocks_found, payouts_count>>

\* probe.py:144
window_start == current_height - P2POOL_WINDOW_SIZE

\* probe.py:149
share_height(share) == Get(share, "side_height", 0)

\* probe.py:150
is_uncle(share) == Get(share, "uncle", FALSE)

\* A strict comparison in place of probe.py:152.
InWindowStrict(height, start) == height > start

\* probe.py:152
InWindow(height, start) == height >= start

\* A loop that skips a share outside the window and carries on.
AfterOutsideContinue(i, n) == i + 1

\* probe.py:157-160: the break: where the loop goes after a share outside
\* the window, from position i of a list of n shares.
AfterOutside(i, n) == n + 1

\* One iteration of the loop of probe.py:148-160, or its exit.
WalkStep ==
    /\ pc = "walk"
    /\ IF idx <= Len(miner_shares)
       THEN LET share == miner_shares[idx]
            IN  /\ examined' = examined \cup {idx}
                /\ IF InWindow(share_height(share), window_start)
                   THEN /\ active_shares' = active_shares + 1
                        /\ active_uncles' =
                             IF is_uncle(share) THEN active_uncles + 1 ELSE active_uncles
                        /\ idx' = idx + 1
                   ELSE /\ idx' = AfterOutside(idx, Len(miner_shares))
                        /\ UNCHANGED <<active_shares, active_uncles>>
                /\ UNCHANGED pc
       ELSE /\ pc' = "blocks"
            /\ UNCHANGED <<idx, examined, active_shares, active_uncles>>
    /\ UNCHANGED <<requests, shares_data, total_shares, current_height, miner_shares,
                   blocks_found, payouts_count, result>>

\* A blocks request without its own try block.
BlocksExceptUncaught(failure) == [caught |-> FALSE, value |-> NA]

\* probe.py:171-173: the inner except clause of the blocks request.
BlocksExcept(failure) == [caught |-> TRUE, value |-> NA]

\* Step 4, probe.py:162-173
Blocks ==
    /\ pc = "blocks"
    /\ \/ /\ requests' = Append(requests, Request("blocks", "ok"))
          /\ \E n \in 0..1 : blocks_found' = n
          /\ pc' = "payouts"
          /\ UNCHANGED result
       \/ \E f \in Failures :
            /\ requests' = Append(requests, Request("blocks", "fail"))
            /\ IF BlocksExcept(f).caught
               THEN /\ blocks_found' = BlocksExcept(f).value
                    /\ pc' = "payouts"
                    /\ UNCHANGED result
               ELSE /\ pc' = OuterExcept(f).pc
                    /\ result' = OuterExcept(f).result
                    /\ UNCHANGED blocks_found
    /\ UNCHANGED <<shares_data, total_shares, current_height, miner_shares, idx, examined,
                   active_shares, active_uncles, payouts_count>>

\* probe.py:200-202: the inner except clause of the payouts request.
PayoutsExcept(failure) == [caught |-> TRUE, value |-> NA]

\* A result that reports the all-time total as the shares held.
FinalResultHoldsTotal(b, p, a, u, t) == ResultTuple(b, t, p, a, u, t)

\* probe.py:215
FinalResult(b, p, a, u, t) == ResultTuple(b, a, p, a, u, t)

\* Step 5 and the return, probe.py:175-215
Payouts ==
    /\ pc = "payouts"
    /\ \/ /\ requests' = Append(requests, Request("payouts", "ok"))
          /\ \E n \in {0, 2} : payouts_count' = n
          /\ result' = FinalResult(blocks_found, payouts_count', active_shares,
                                   active_uncles, total_shares)
          /\ pc' = "done"
       \/ \E f \in Failures :
            /\ requests' = Append(requests, Request("payouts", "fail"))
            /\ IF PayoutsExcept(f).caught
               THEN /\ payouts_count' = PayoutsExcept(f).value
                    /\ result' = FinalResult(blocks_found, payouts_count', active_shares,
                                             active_uncles, total_shares)
                    /\ pc' = "done"
               ELSE /\ pc' = OuterExcept(f).pc
                    /\ result' = OuterExcept(f).result
                    /\ UNCHANGED payouts_count
    /\ UNCHANGED <<shares_data, total_shares, current_height, miner_shares, idx, examined,
                   active_shares, active_uncles, blocks_found>>

PoolNext ==
    \/ MinerInfoOk /\ UNCHANGED <<db_vars, nids_vars, scan_vars, status_vars, conc_vars>>
    \/ MinerInfoFails /\ UNCHANGED <<db_vars, nids_vars, scan_vars, status_vars, conc_vars>>
    \/ LastShareOk /\ UNCHANGED <<db_vars, nids_vars, scan_vars, status_vars, conc_vars>>
    \/ LastShareFails /\ UNCHANGED <<db_vars, nids_vars, scan_vars, status_vars, conc_vars>>
    \/ MinerSharesOk /\ UNCHANGED <<db_vars, nids_vars, scan_vars, status_vars, conc_vars>>
    \/ MinerSharesFails /\ UNCHANGED <<db_vars, nids_vars, scan_vars, status_vars, conc_vars>>
    \/ WalkStep /\ UNCHANGED <<db_vars, nids_vars, scan_vars, status_vars, conc_vars>>
    \/ Blocks /\ UNCHANGED <<db_vars, nids_vars, scan_vars, status_vars, conc_vars>>
    \/ Payouts /\ UNCHANGED <<db_vars, nids_vars, scan_vars, status_vars, conc_vars>>

----------------------------------------------------------------------------
\* SentinelDB: values

Hosts == {"h1", "h2"}

Addrs == {"a1"}

\* (hashrate, cpu, ram) of an upsert_miner call: an unreachable miner, a miner
\* reporting 0.0 H/s, and a local miner with system metrics.
MinerArgs == {<<None, None, None>>, <<0, None, None>>, <<5, 1, 2>>}

\* (blocks_found, shares_held, payouts_sent, active_shares, active_uncles,
\* total_shares) of an upsert_p2pool_stats call: results of get_p2pool_stats.
PoolArgs == {<<NA, 0, NA, 0, 0, 7>>, <<1, 2, 2, 2, 1, 7>>}

\* Largest "days" argument of cleanup_old_data; the clock starts that many
\* days after day 0, so that every cutoff is a representable instant.
MaxRetention == 1

\* Days the clock runs for after its start.
MaxDays == 1

\* Rows ever inserted into the three AUTOINCREMENT tables together.
MaxRows == 2

\* The instants of the clock: a day and a sub-second fraction (0 or .5).
Fractions == {0, 5}

\* The sqlite3 datetime adapter (datetime.isoformat(" ")): fixed-width
\* zero-padded fields, a fraction that is left out when it is zero, and the
\* UTC offset.  Characters are their code points: "+" 43, "." 46, "0" 48.
Adapt(ts) ==
    <<48 + (ts[1] \div 10), 48 + (ts[1] % 10)>>
      \o (IF ts[2] = 0 THEN <<>> ELSE <<46, 48 + ts[2]>>)
      \o <<43>>

\* SQLite's BINARY collation on TEXT: a < b.
TextLess(a, b) ==
    \E i \in 1..(Len(a) + 1) :
       /\ i <= Len(b)
       /\ \A j \in 1..(i - 1) : a[j] = b[j]
       /\ (i = Len(a) + 1 \/ a[i] < b[i])

\* Chronological order of two instants.
Earlier(t, u) == t[1] < u[1] \/ (t[1] = u[1] /\ t[2] < u[2])

\* timedelta(days=days) subtracted from an instant.
MinusDays(ts, days) == <<ts[1] - days, ts[2]>>

\* The store: the five tables and sqlite_sequence.
Store ==
    [miners |-> miners, miner_history |-> miner_history,
     p2pool_stats |-> p2pool_stats, p2pool_history |-> p2pool_history,
     alerts |-> alerts, seq |-> seq]

\* Outcomes of a call: it runs through, or its first or second statement
\* fails (lock timeout, constraint, I/O error), or the commit fails.
FailPoints == {"none", "stmt1", "stmt2", "commit"}

\* A context manager that commits whatever the body did, also on an exception.
GetConnectionCommitsPartial(before, working, fail) ==
    [store |-> working, raised |-> fail # "none"]

\* get_connection, database.py:21-33: commit when the body ran through,
\* roll back and re-raise on any exception.
GetConnection(before, working, fail) ==
    IF fail = "none"
    THEN [store |-> working, raised |-> FALSE]
    ELSE [store |-> before, raised |-> TRUE]

\* The state of the connection's transaction when the call stops at "fail".
Working(s0, s1, s2, fail) ==
    CASE fail = "stmt1"   -> s0
      [] fail = "stmt2"   -> s1
      [] OTHER            -> s2

\* A truth test of the hashrate in place of the test against None.
StatusOfTruthy(hashrate) ==
    IF hashrate # None /\ hashrate # 0 THEN "Online" ELSE "Offline"

\* database.py:144
StatusOf(hashrate) == IF hashrate # None THEN "Online" ELSE "Offline"

\* A plain INSERT into a table that has no primary key.
UpsertRowNoKey(table, key, row) == table \cup {row}

\* INSERT ... ON CONFLICT(key) DO UPDATE SET ..., on a table whose primary
\* key is the field "key" (database.py:49, 76, 147-156, 174-188).
UpsertRow(table, key, row) ==
    IF \E r \in table : r[key] = row[key]
    THEN {IF r[key] = row[key] THEN row ELSE r : r \in table}
    ELSE table \cup {row}

\* INSERT into an AUTOINCREMENT table: the id is one more than the last one
\* handed out (database.py:62, 91, 103).
InsertRow(table, last_id, row) == table \cup {[id |-> last_id + 1] @@ row}

\* DELETE FROM table WHERE timestamp <= cutoff.
DeleteOlderOrEqual(table, cutoff) ==
    {r \in table : TextLess(Adapt(cutoff), Adapt(r.timestamp))}

\* DELETE FROM table WHERE timestamp < cutoff (database.py:263-264): the
\* column and the parameter are both adapted datetimes, compared as TEXT.
DeleteOlder(table, cutoff) ==
    {r \in table : ~TextLess(Adapt(r.timestamp), Adapt(cutoff))}

DbInit ==
    /\ miners = {}
    /\ miner_history = {}
    /\ p2pool_stats = {}
    /\ p2pool_history = {}
    /\ alerts = {}
    /\ seq = [miner_history |-> 0, p2pool_history |-> 0, alerts |-> 0]
    /\ now = <<MaxRetention, 0>>
    /\ upserts_ok = 0
    /\ purged = FALSE
    /\ deleted = FALSE
    /\ live_hosts = {}
    /\ live_addrs = {}

RowsInserted == seq.miner_history + seq.p2pool_history + seq.alerts

\* The call's transaction takes effect: the store becomes s.
Becomes(s) ==
    /\ miners' = s.miners
    /\ miner_history' = s.miner_history
    /\ p2pool_stats' = s.p2pool_stats
    /\ p2pool_history' = s.p2pool_history
    /\ alerts' = s.alerts
    /\ seq' = s.seq

\* The clock advances to its next instant.
Tick ==
    /\ now[1] < MaxRetention + MaxDays \/ now[2] = 0
    /\ now' = IF now[2] = 0 THEN <<now[1], 5>> ELSE <<now[1] + 1, 0>>
    /\ UNCHANGED <<miners, miner_history, p2pool_stats, p2pool_history, alerts,
                   seq, upserts_ok, purged, deleted, live_hosts, live_addrs>>

\* An upsert_miner that adds the history row only when the host is new.
upsert_miner_history_on_insert(host, hashrate, cpu, ram, fail) ==
    LET timestamp == now
        status == StatusOf(hashrate)
        s0 == Store
        s1 == [s0 EXCEPT !.miners =
                 UpsertRow(@, "host",
                    [host |-> host, last_seen |-> timestamp, hashrate |-> hashrate,
                     cpu_usage |-> cpu, ram_usage |-> ram, status |-> status])]
        s2 == IF \E r \in s0.miners : r.host = host
              THEN s1
              ELSE [s1 EXCEPT !.miner_history =
                      InsertRow(@, s1.seq.miner_history,
                         [host |-> host, timestamp |-> timestamp, hashrate |-> hashrate,
                          cpu_usage |-> cpu, ram_usage |-> ram, status |-> status]),
                              !.seq.miner_history = @ + 1]
    IN  GetConnection(s0, Working(s0, s1, s2, fail), fail)

\* The two statements of upsert_miner, database.py:144-162, run on the
\* store s0 with the timestamp of database.py:143: the state of the
\* transaction after the first (s1) and after the second (s2).
upsert_miner_statements(s0, timestamp, host, hashrate, cpu, ram) ==
    LET status == StatusOf(hashrate)
        s1 == [s0 EXCEPT !.miners =
                 UpsertRow(@, "host",
                    [host |-> host, last_seen |-> timestamp, hashrate |-> hashrate,
                     cpu_usage |-> cpu, ram_usage |-> ram, status |-> status])]
        s2 == [s1 EXCEPT !.miner_history =
                 InsertRow(@, s1.seq.miner_history,
                    [host |-> host, timestamp |-> timestamp, hashrate |-> hashrate,
                     cpu_usage |-> cpu, ram_usage |-> ram, status |-> status]),
                         !.seq.miner_history = @ + 1]
    IN  [s1 |-> s1, s2 |-> s2]

\* upsert_miner, database.py:135-162: the store the call leaves and whether
\* it raised, when it runs from the current store and stops at "fail".
upsert_miner(host, hashrate, cpu, ram, fail) ==
    LET s0 == Store
        tx == upsert_miner_statements(s0, now, host, hashrate, cpu, ram)
    IN  GetConnection(s0, Working(s0, tx.s1, tx.s2, fail), fail)

UpsertMiner ==
    /\ RowsInserted < MaxRows
    /\ \E host \in Hosts, a \in MinerArgs, fail \in FailPoints :
         LET end == upsert_miner(host, a[1], a[2], a[3], fail)
         IN  /\ Becomes(end.store)
             /\ upserts_ok' = IF end.raised THEN upserts_ok ELSE upserts_ok + 1
             /\ live_hosts' = IF end.raised THEN live_hosts ELSE live_hosts \cup {host}
             /\ UNCHANGED <<now, purged, deleted, live_addrs>>

\* upsert_p2pool_stats, database.py:164-194
upsert_p2pool_stats(miner_address, a, fail) ==
    LET timestamp == now
        s0 == Store
        s1 == [s0 EXCEPT !.p2pool_stats =
                 UpsertRow(@, "miner_address",
                    [miner_address |-> miner_address, last_seen |-> timestamp,
                     blocks_found |-> a[1], shares_held |-> a[2],
                     payouts_sent |-> a[3], active_shares |-> a[4],
                     active_uncles |-> a[5], total_shares |-> a[6]])]
        s2 == [s1 EXCEPT !.p2pool_history =
                 InsertRow(@, s1.seq.p2pool_history,
                    [miner_address |-> miner_address, timestamp |-> timestamp,
                     active_shares |-> a[4], total_shares |-> a[6]]),
                         !.seq.p2pool_history = @ + 1]
    IN  GetConnection(s0, Working(s0, s1, s2, fail), fail)

UpsertP2PoolStats ==
    /\ RowsInserted < MaxRows
    /\ \E miner_address \in Addrs, a \in PoolArgs, fail \in FailPoints :
         LET end == upsert_p2pool_stats(miner_address, a, fail)
         IN  /\ Becomes(end.store)
             /\ live_addrs' =
                  IF end.raised THEN live_addrs ELSE live_addrs \cup {miner_address}
             /\ UNCHANGED <<now, upserts_ok, purged, deleted, live_hosts>>

\* A purge that also drops the current rows last seen before the cutoff.
cleanup_old_data_with_current(days, fail) ==
    LET cutoff == MinusDays(now, days)
        s0 == Store
        s1 == [s0 EXCEPT !.miner_history = DeleteOlder(@, cutoff),
                         !.miners =
                            {r \in @ : ~TextLess(Adapt(r.last_seen), Adapt(cutoff))}]
        s2 == [s1 EXCEPT !.p2pool_history = DeleteOlder(@, cutoff)]
    IN  GetConnection(s0, Working(s0, s1, s2, fail), fail)

\* cleanup_old_data, database.py:257-268
cleanup_old_data(days, fail) ==
    LET cutoff == MinusDays(now, days)
        s0 == Store
        s1 == [s0 EXCEPT !.miner_history = DeleteOlder(@, cutoff)]
        s2 == [s1 EXCEPT !.p2pool_history = DeleteOlder(@, cutoff)]
    IN  GetConnection(s0, Working(s0, s1, s2, fail), fail)

CleanupOldData ==
    \E days \in 0..MaxRetention, fail \in FailPoints :
        LET end == cleanup_old_data(days, fail)
        IN  /\ Becomes(end.store)
            /\ purged' = (purged \/ end.store.miner_history # miner_history)
            /\ UNCHANGED <<now, upserts_ok, deleted, live_hosts, live_addrs>>

\* add_alert, database.py:294-304 (one statement)
add_alert(alert_type, severity, source_ip, source_mac, fail) ==
    LET timestamp == now
        s0 == Store
        s1 == [s0 EXCEPT !.alerts =
                 InsertRow(@, s0.seq.alerts,
                    [timestamp |-> timestamp, type |-> alert_type,
                     acknowledged |-> 0, severity |-> severity,
                     source_ip |-> source_ip, source_mac |-> source_mac]),
                         !.seq.alerts = @ + 1]
    IN  GetConnection(s0, Working(s0, s1, s1, fail), fail)

\* Outcomes of a call of one statement.
FailPoints1 == FailPoints \ {"stmt2"}

AddAlert ==
    /\ RowsInserted < MaxRows
    /\ \E fail \in FailPoints1 :
         /\ Becomes(add_alert("ARP Spoofing", "high", "10.0.0.1", "m2", fail).store)
         /\ UNCHANGED <<now, upserts_ok, purged, deleted, live_hosts, live_addrs>>

\* Alert ids an operator may name: those handed out, and one never handed out.
AlertIds == 1..(seq.alerts + 1)

\* An UPDATE that flips the acknowledged flag of the row.
ToggleAcknowledged(table, alert_id) ==
    {IF r.id = alert_id THEN [r EXCEPT !.acknowledged = 1 - @] ELSE r : r \in table}

\* UPDATE alerts SET acknowledged = 1 WHERE id = ? (database.py:329): a
\* statement that matches no row changes nothing and is not an error.
SetAcknowledged(table, alert_id) ==
    {IF r.id = alert_id THEN [r EXCEPT !.acknowledged = 1] ELSE r : r \in table}

\* An acknowledge_alert that acknowledges every alert up to the one named.
acknowledge_alert_from_upto(s0, alert_id, fail) ==
    LET s1 == [s0 EXCEPT !.alerts =
                 {IF r.id <= alert_id THEN [r EXCEPT !.acknowledged = 1] ELSE r : r \in @}]
    IN  GetConnection(s0, Working(s0, s1, s1, fail), fail)

\* acknowledge_alert, database.py:325-329, run from the store s0.
acknowledge_alert_from(s0, alert_id, fail) ==
    LET s1 == [s0 EXCEPT !.alerts = SetAcknowledged(@, alert_id)]
    IN  GetConnection(s0, Working(s0, s1, s1, fail), fail)

\* acknowledge_alert, database.py:325-329, run from the current store.
acknowledge_alert(alert_id, fail) == acknowledge_alert_from(Store, alert_id, fail)

AcknowledgeAlert ==
    \E alert_id \in AlertIds, fail \in FailPoints1 :
        /\ Becomes(acknowledge_alert(alert_id, fail).store)
        /\ UNCHANGED <<now, upserts_ok, purged, deleted, live_hosts, live_addrs>>

\* acknowledge_all_alerts, database.py:331-335, run from the store s0.
acknowledge_all_alerts_from(s0, fail) ==
    LET s1 == [s0 EXCEPT !.alerts = {[r EXCEPT !.acknowledged = 1] : r \in @}]
    IN  GetConnection(s0, Working(s0, s1, s1, fail), fail)

\* acknowledge_all_alerts, database.py:331-335, run from the current store.
acknowledge_all_alerts(fail) == acknowledge_all_alerts_from(Store, fail)

AcknowledgeAllAlerts ==
    \E fail \in FailPoints1 :
        /\ Becomes(acknowledge_all_alerts(fail).store)
        /\ UNCHANGED <<now, upserts_ok, purged, deleted, live_hosts, live_addrs>>

\* delete_alert, database.py:337-341, run from the store s0.
delete_alert_from(s0, alert_id, fail) ==
    LET s1 == [s0 EXCEPT !.alerts = {r \in @ : r.id # alert_id}]
    IN  GetConnection(s0, Working(s0, s1, s1, fail), fail)

\* delete_alert, database.py:337-341, run from the current store.
delete_alert(alert_id, fail) == delete_alert_from(Store, alert_id, fail)

DeleteAlert ==
    \E alert_id \in AlertIds, fail \in FailPoints1 :
        /\ Becomes(delete_alert(alert_id, fail).store)
        /\ UNCHANGED <<now, upserts_ok, purged, deleted, live_hosts, live_addrs>>

\* A delete button that removes the current row and keeps the history.
delete_miner_current_only(host) ==
    [Store EXCEPT !.miners = {r \in @ : r.host # host}]

\* The dashboard's delete button, app.py:275-285: both DELETEs run on one
\* connection and are committed together.
delete_miner(host) ==
    LET s0 == Store
        s1 == [s0 EXCEPT !.miners = {r \in @ : r.host # host}]
        s2 == [s1 EXCEPT !.miner_history = {r \in @ : r.host # host}]
    IN  s2

\* The button is offered for every host that has a miners row (app.py:265).
DeleteMiner ==
    \E host \in {r.host : r \in miners} :
        /\ Becomes(delete_miner(host))
        /\ deleted' = (deleted \/ delete_miner(host).miner_history # miner_history)
        /\ live_hosts' = live_hosts \ {host}
        /\ UNCHANGED <<now, upserts_ok, purged, live_addrs>>

----------------------------------------------------------------------------
\* arp_spoof_detector (nids.py)

\* Addresses on the watched segment.
NidsIps == {"10.0.0.1"}

Macs == {"m1", "m2", "m3"}

\* ARP opcodes: request, reply, and one the detector ignores (RARP request).
ArpOps == {1, 2, 3}

\* SQL NULL in a TEXT column: read back as None, which is as falsy as "".
Null == <<>>

\* The cooldown of nids.py:69, in seconds.
COOLDOWN_SECONDS == 86400

\* datetime.fromisoformat on the text the adapter wrote: the two digits of
\* the day, and the fraction when the text has one.
FromIsoFormat(text) ==
    <<(text[1] - 48) * 10 + (text[2] - 48),
      IF text[3] = 46 THEN text[4] - 48 ELSE 0>>

\* timedelta.total_seconds() of t - u, in tenths of a second (a day has 86400 s).
TotalTenths(t, u) == (t[1] - u[1]) * 864000 + (t[2] - u[2])

\* db.get_arp_entry(ip, mac): the durable records of the pair, none or one.
get_arp_entry(entries, ip, mac) == {e \in entries : e.ip = ip /\ e.mac = mac}

\* db.update_arp_entry(ip, mac, alerted): the record of the pair is written;
\* alerted marks it alerted at the current time, a quiet entry leaves the
\* mark it had.
update_arp_entry(entries, ip, mac, alerted) ==
    LET old == get_arp_entry(entries, ip, mac)
        mark == IF alerted THEN Adapt(now)
                ELSE IF old = {} THEN Null
                ELSE (CHOOSE e \in old : TRUE).last_alerted
    IN  (entries \ old) \cup {[ip |-> ip, mac |-> mac, last_alerted |-> mark]}

\* A cooldown test that also holds back an alert exactly 24 hours later.
ShouldAlertAfterCooldown(entry) ==
    IF entry = {} THEN TRUE
    ELSE LET last_alerted_str == (CHOOSE e \in entry : TRUE).last_alerted
         IN  IF last_alerted_str = Null THEN TRUE
             ELSE ~(TotalTenths(now, FromIsoFormat(last_alerted_str))
                       <= COOLDOWN_SECONDS * 10)

\* nids.py:63-72: alert unless the record of the pair was marked alerted
\* less than 86400 s ago.  (The mark is always text the adapter wrote, so the
\* except clause of nids.py:71 is never entered.)
ShouldAlert(entry) ==
    IF entry = {} THEN TRUE
    ELSE LET last_alerted_str == (CHOOSE e \in entry : TRUE).last_alerted
         IN  IF last_alerted_str = Null THEN TRUE
             ELSE ~(TotalTenths(now, FromIsoFormat(last_alerted_str))
                       < COOLDOWN_SECONDS * 10)

\* push_alert, nids.py:22-38: add_alert, with any exception logged and
\* swallowed.
push_alert(alert_type, severity, source_ip, source_mac, fail) ==
    LET end == add_alert(alert_type, severity, source_ip, source_mac, fail)
    IN  [store |-> end.store, stored |-> ~end.raised]

\* A detector that raises a candidate alert for every known address.
IsChangeAnyKnown(table, src_ip, src_mac) == src_ip \in DOMAIN table

\* nids.py:58
IsChange(table, src_ip, src_mac) ==
    src_ip \in DOMAIN table /\ table[src_ip] # src_mac

\* A table that keeps the first mac it saw for an ip.
BindFirstSighting(table, src_ip, src_mac) ==
    [i \in DOMAIN table \cup {src_ip} |-> IF i \in DOMAIN table THEN table[i] ELSE src_mac]

\* nids.py:109
Bind(table, src_ip, src_mac) ==
    [i \in DOMAIN table \cup {src_ip} |-> IF i = src_ip THEN src_mac ELSE table[i]]

\* A detector that leaves the in-memory table alone when it holds an alert back.
arp_spoof_detector_keeps_binding(op, src_ip, src_mac, fail) ==
    LET entry == get_arp_entry(arp_entries, src_ip, src_mac)
        should_alert == ShouldAlert(entry)
        pushed == push_alert("ARP Spoofing", "high", src_ip, src_mac, fail)
    IN  IF op \notin {1, 2}
        THEN [handled |-> FALSE, arp_table |-> arp_table,
              arp_entries |-> arp_entries, store |-> Store, outcome |-> "ignored"]
        ELSE IF IsChange(arp_table, src_ip, src_mac)
        THEN [handled |-> TRUE,
              arp_table |-> IF should_alert THEN Bind(arp_table, src_ip, src_mac)
                            ELSE arp_table,
              arp_entries |-> update_arp_entry(arp_entries, src_ip, src_mac, should_alert),
              store |-> IF should_alert THEN pushed.store ELSE Store,
              outcome |-> IF ~should_alert THEN "suppressed"
                          ELSE IF pushed.stored THEN "persisted" ELSE "lost"]
        ELSE [handled |-> TRUE,
              arp_table |-> Bind(arp_table, src_ip, src_mac),
              arp_entries |-> update_arp_entry(arp_entries, src_ip, src_mac, FALSE),
              store |-> Store, outcome |-> "quiet"]

\* arp_spoof_detector, nids.py:41-109: what one packet leaves behind.
\* outcome: "ignored" (not a request or reply), "quiet" (no change of
\* binding), "suppressed" (change within the cooldown), "persisted" (alert
\* stored), "lost" (add_alert raised inside push_alert).
arp_spoof_detector(op, src_ip, src_mac, fail) ==
    LET entry == get_arp_entry(arp_entries, src_ip, src_mac)
        should_alert == ShouldAlert(entry)
        pushed == push_alert("ARP Spoofing", "high", src_ip, src_mac, fail)
    IN  IF op \notin {1, 2}
        THEN [handled |-> FALSE, arp_table |-> arp_table,
              arp_entries |-> arp_entries, store |-> Store, outcome |-> "ignored"]
        ELSE IF IsChange(arp_table, src_ip, src_mac)
        THEN [handled |-> TRUE,
              arp_table |-> Bind(arp_table, src_ip, src_mac),
              arp_entries |-> update_arp_entry(arp_entries, src_ip, src_mac, should_alert),
              store |-> IF should_alert THEN pushed.store ELSE Store,
              outcome |-> IF ~should_alert THEN "suppressed"
                          ELSE IF pushed.stored THEN "persisted" ELSE "lost"]
        ELSE [handled |-> TRUE,
              arp_table |-> Bind(arp_table, src_ip, src_mac),
              arp_entries |-> update_arp_entry(arp_entries, src_ip, src_mac, FALSE),
              store |-> Store, outcome |-> "quiet"]

\* ARP events one run of the sniffer handles.
MaxEvents == 4

NidsInit ==
    /\ arp_table = <<>>
    /\ arp_entries = {}
    /\ events = <<>>

\* An entry of the event log.
Event(src_ip, src_mac, outcome) ==
    [ip |-> src_ip, mac |-> src_mac, outcome |-> outcome]

\* sniff(prn=arp_spoof_detector), nids.py:142-147: one packet, handled to
\* the end before the next one.
ArpEvent ==
    /\ Len(events) < MaxEvents
    /\ \E op \in ArpOps, src_ip \in NidsIps, src_mac \in Macs, fail \in FailPoints1 :
         LET end == arp_spoof_detector(op, src_ip, src_mac, fail)
         IN  /\ arp_table' = end.arp_table
             /\ arp_entries' = end.arp_entries
             /\ Becomes(end.store)
             /\ events' = IF end.handled
                          THEN Append(events, Event(src_ip, src_mac, end.outcome))
                          ELSE events
    /\ UNCHANGED <<now, upserts_ok, purged, deleted, live_hosts, live_addrs>>

NidsNext ==
    \/ Tick /\ UNCHANGED <<pool_vars, nids_vars, scan_vars, status_vars, conc_vars>>
    \/ ArpEvent /\ UNCHANGED <<pool_vars, scan_vars, status_vars, conc_vars>>

----------------------------------------------------------------------------
\* get_monero_hashrate and scan_network (probe.py)

\* A JSON object without members.
EmptyDict == [k \in {} |-> 0]

\* What the miner API can answer to GET /2/summary: no answer in time, no
\* connection, a non-2xx status, a body that is not JSON, a JSON value that
\* is not an object, or a JSON object.
Responses ==
    { [kind |-> "timeout"], [kind |-> "connection_error"], [kind |-> "http_error"],
      [kind |-> "not_json"], [kind |-> "not_object"],
      [kind |-> "object", data |-> [hashrate |-> [total |-> <<5, 4, 3>>]]],
      [kind |-> "object", data |-> [hashrate |-> [total |-> <<0, 0, 0>>]]],
      [kind |-> "object", data |-> [hashrate |-> [total |-> <<None, None, None>>]]],
      [kind |-> "object", data |-> [hashrate |-> [total |-> <<>>]]],
      [kind |-> "object", data |-> [hashrate |-> [highest |-> 9]]],
      [kind |-> "object", data |-> [version |-> 6]] }

\* probe.py:48-53, the body of the try block: the exception it raises ("" when
\* it returns) and the value it returns.
TryHashrate(response) ==
    CASE response.kind = "timeout"          -> [exception |-> "Timeout", value |-> None]
      [] response.kind = "connection_error" -> [exception |-> "ConnectionError", value |-> None]
      [] response.kind = "http_error"       -> [exception |-> "HTTPError", value |-> None]
      [] response.kind = "not_json"         -> [exception |-> "ValueError", value |-> None]
      [] response.kind = "not_object"       -> [exception |-> "AttributeError", value |-> None]
      [] OTHER ->
           LET total == Get(Get(response.data, "hashrate", EmptyDict), "total", <<0>>)
           IN  IF Len(total) = 0
               THEN [exception |-> "IndexError", value |-> None]
               ELSE [exception |-> "", value |-> total[1]]

\* The except clauses without the last one, probe.py:66.
CaughtNoCatchAll(exception) ==
    exception \in {"Timeout", "ConnectionError", "HTTPError",
                   "KeyError", "IndexError", "ValueError"}

\* The except clauses of probe.py:54-68: the last one catches every Exception.
Caught(exception) == TRUE

\* get_monero_hashrate, probe.py:34-68
get_monero_hashrate(response) ==
    LET body == TryHashrate(response)
    IN  IF body.exception = "" THEN [raised |-> FALSE, value |-> body.value]
        ELSE IF Caught(body.exception) THEN [raised |-> FALSE, value |-> None]
        ELSE [raised |-> TRUE, value |-> None]

\* Host bits of the widest network scanned: prefixes from 32 - MaxHostBits.
MaxHostBits == 2

\* 10.0.0.0 as a 32-bit number.
Base == 10 * 16777216

\* The network_range arguments: an address and a prefix length (33 is out
\* of range; 10.0.0.5 has host bits set for every prefix but 32), and text
\* that is no CIDR notation at all.
NetworkRanges ==
    [form : {"cidr"}, addr : {Base, Base + 4, Base + 5},
     prefix : (32 - MaxHostBits)..33]
      \cup {[form |-> "garbage"]}

\* An ip_network that masks the host bits away (strict=False).
ip_network_lenient(range) ==
    IF range.form = "cidr" /\ range.prefix \in 0..32
    THEN LET size == 2 ^ (32 - range.prefix)
         IN  [ok |-> TRUE, network_address |-> range.addr - (range.addr % size),
              prefixlen |-> range.prefix, num_addresses |-> size]
    ELSE [ok |-> FALSE]

\* ipaddress.ip_network(network_range), probe.py:323: ValueError for text
\* that is not CIDR notation, a prefix out of range, or host bits set.
ip_network(range) ==
    IF range.form = "cidr" /\ range.prefix \in 0..32
    THEN LET size == 2 ^ (32 - range.prefix)
         IN  IF range.addr % size = 0
             THEN [ok |-> TRUE, network_address |-> range.addr,
                   prefixlen |-> range.prefix, num_addresses |-> size]
             ELSE [ok |-> FALSE]
    ELSE [ok |-> FALSE]

\* The addresses from a to b, in order.
RECURSIVE AddressRange(_, _)
AddressRange(a, b) == IF a > b THEN <<>> ELSE <<a>> \o AddressRange(a + 1, b)

\* A hosts() that yields every address of the network.
hosts_all(network) ==
    AddressRange(network.network_address,
                 network.network_address + network.num_addresses - 1)

\* IPv4Network.hosts(), probe.py:333: the addresses between the network and
\* the broadcast address; both addresses of a /31; the address of a /32.
hosts(network) ==
    LET first == network.network_address
        last == network.network_address + network.num_addresses - 1
    IN  IF network.prefixlen >= 31
        THEN AddressRange(first, last)
        ELSE AddressRange(first + 1, last - 1)

\* str(ip): the four octets.
Str(ip) ==
    <<ip \div 16777216, (ip \div 65536) % 256, (ip \div 256) % 256, ip % 256>>

\* A count of the hosts that answered with a hashrate, stored or not.
FoundAfterCountsUnstored(n, value, raised) == IF value # None THEN n + 1 ELSE n

\* probe.py:337-343: found is incremented after upsert_miner returned, for a
\* hashrate that is not None.
FoundAfter(n, value, raised) == IF ~raised /\ value # None THEN n + 1 ELSE n

Unset == [form |-> "unset"]

ScanInit ==
    /\ scan_pc = "start"
    /\ network_range = Unset
    /\ todo = <<>>
    /\ probes = <<>>
    /\ scan_response = [kind |-> "none"]
    /\ scan_hashrate = None
    /\ found = 0
    /\ in_flight = {}
    /\ lost = {}

\* A scan that goes on with the lenient network when the strict one is refused.
AfterParseLenient(range) ==
    LET network == ip_network(range)
        lenient == ip_network_lenient(range)
    IN  IF network.ok THEN [pc |-> "loop", todo |-> hosts(network)]
        ELSE IF lenient.ok THEN [pc |-> "loop", todo |-> hosts(lenient)]
        ELSE [pc |-> "done", todo |-> <<>>]

\* probe.py:322-333: return on ValueError, else iterate network.hosts().
AfterParse(range) ==
    LET network == ip_network(range)
    IN  IF network.ok THEN [pc |-> "loop", todo |-> hosts(network)]
        ELSE [pc |-> "done", todo |-> <<>>]

\* scan_network is called, probe.py:314-332
ScanStart ==
    /\ scan_pc = "start"
    /\ \E range \in NetworkRanges :
         /\ network_range' = range
         /\ todo' = AfterParse(range).todo
         /\ scan_pc' = IF AfterParse(range).todo = <<>> THEN "done"
                       ELSE AfterParse(range).pc
    /\ UNCHANGED <<probes, scan_response, scan_hashrate, found, in_flight, lost>>
    /\ UNCHANGED db_vars

\* A loop that hands the probe of the last host over and goes on to return.
AfterIssueNoJoin(remaining) == IF remaining = <<>> THEN "done" ELSE "probing"

\* probe.py:333-335: get_monero_hashrate is called in the loop body, which
\* goes on when the call has returned.
AfterIssue(remaining) == "probing"

\* probe.py:333-335: the loop takes the next host and calls
\* get_monero_hashrate for it; the request is on its way.
ScanProbe ==
    /\ scan_pc = "loop"
    /\ probes' = Append(probes, Head(todo))
    /\ todo' = Tail(todo)
    /\ in_flight' = in_flight \cup {Head(todo)}
    /\ scan_pc' = AfterIssue(Tail(todo))
    /\ UNCHANGED <<network_range, scan_response, scan_hashrate, found, lost>>
    /\ UNCHANGED db_vars

\* probe.py:335: get_monero_hashrate returns for the host probed.
ScanAnswer ==
    /\ scan_pc = "probing"
    /\ \E response \in Responses :
         LET end == get_monero_hashrate(response)
         IN  /\ scan_response' = response
             /\ scan_hashrate' = end.value
             /\ scan_pc' = IF end.raised THEN "raised" ELSE "store"
    /\ in_flight' = in_flight \ {probes[Len(probes)]}
    /\ UNCHANGED <<network_range, todo, probes, found, lost>>
    /\ UNCHANGED db_vars

\* A scan that writes only the hosts that answered with a hashrate.
StoreResultOnlineOnly(ip, value, fail) ==
    IF value = None THEN [store |-> Store, raised |-> FALSE]
    ELSE upsert_miner(Str(ip), value, None, None, fail)

\* probe.py:338: db.upsert_miner(str(ip), hashrate), whatever the hashrate.
StoreResult(ip, value, fail) == upsert_miner(Str(ip), value, None, None, fail)

\* A loop without the except clause of probe.py:342: the exception of
\* upsert_miner leaves scan_network.
AfterStoreAborts(raised, remaining) ==
    IF raised THEN "raised" ELSE IF remaining = <<>> THEN "done" ELSE "loop"

\* probe.py:337-345: the exception of upsert_miner is caught and printed,
\* and the loop goes on with the next host, or ends.
AfterStore(raised, remaining) == IF remaining = <<>> THEN "done" ELSE "loop"

\* probe.py:337-343: the result is written, and counted when it is a hashrate.
ScanStore ==
    /\ scan_pc = "store"
    /\ \E fail \in FailPoints :
         LET ip == probes[Len(probes)]
             end == StoreResult(ip, scan_hashrate, fail)
         IN  /\ Becomes(end.store)
             /\ found' = FoundAfter(found, scan_hashrate, end.raised)
             /\ upserts_ok' = IF end.raised THEN upserts_ok ELSE upserts_ok + 1
             /\ live_hosts' = IF end.raised THEN live_hosts
                              ELSE live_hosts \cup {Str(ip)}
             /\ lost' = IF end.raised THEN lost \cup {ip} ELSE lost
             /\ scan_pc' = AfterStore(end.raised, todo)
    /\ UNCHANGED <<network_range, todo, probes, scan_response, scan_hashrate,
                   in_flight>>
    /\ UNCHANGED <<now, purged, deleted, live_addrs>>

ScanNext ==
    \/ ScanStart /\ UNCHANGED <<pool_vars, nids_vars, status_vars, conc_vars>>
    \/ ScanProbe /\ UNCHANGED <<pool_vars, nids_vars, status_vars, conc_vars>>
    \/ ScanAnswer /\ UNCHANGED <<pool_vars, nids_vars, status_vars, conc_vars>>
    \/ ScanStore /\ UNCHANGED <<pool_vars, nids_vars, status_vars, conc_vars>>

----------------------------------------------------------------------------
\* get_system_status (probe.py)

\* The host arguments: this machine and a remote one.
StatusHosts == {"127.0.0.1", "10.0.0.7"}

\* The custom_name arguments: none (None and "" alike at probe.py:248), or a name.
CustomNames == {"", "rig"}

\* The p2pool_miner_address arguments: none (probe.py:289), or an address.
StatusAddrs == {""} \cup Addrs

\* socket.gethostname(), probe.py:255
Hostname == "sentinel"

\* probe.py:245
is_local(host) == host \in {"127.0.0.1", "localhost"}

\* probe.py:248-260: the name the host is stored under.
db_host(host, custom_name) ==
    IF custom_name # "" THEN custom_name
    ELSE IF is_local(host) THEN Hostname
    ELSE host

\* probe.py:264-273: (cpu_usage, ram_usage) as psutil leaves them: both
\* read, the first call raising, or the second.
SystemStats == {<<1, 2>>, <<None, None>>, <<1, None>>}

\* The answer has no hashrate.total array to read.
FailedOrNoTotal(r) ==
    \/ r.kind # "object"
    \/ "hashrate" \notin DOMAIN r.data
    \/ "total" \notin DOMAIN r.data.hashrate

\* What the miner API answers to the probe of probe.py:262: no answer, a
\* hashrate, a hashrate of 0.0.
StatusResponses ==
    {r \in Responses :
        \/ r.kind = "timeout"
        \/ /\ r.kind = "object"
           /\ ~FailedOrNoTotal(r)
           /\ TryHashrate(r).value \in {0, 5}}

\* What get_p2pool_stats returns to probe.py:292: the six None, or a result.
PoolResults ==
    {Absent} \cup {ResultTuple(a[1], a[2], a[3], a[4], a[5], a[6]) : a \in PoolArgs}

\* A call that stores whatever get_p2pool_stats returned.
StoresPoolAlways(res) == TRUE

\* probe.py:296: if blocks is not None
StoresPool(res) == res.blocks_found # None

NoCall == [host |-> "", db_host |-> "", address |-> ""]

StatusInit ==
    /\ status_pc = "start"
    /\ status_call = NoCall
    /\ status_result = Absent

\* probe.py:242-289: the host is probed and its result stored; the pool is
\* asked next when an address was given.  A call starts while the store
\* has room for the two history rows it may insert.
StatusMiner ==
    /\ status_pc = "start"
    /\ RowsInserted + 1 < MaxRows
    /\ \E host \in StatusHosts, custom_name \in CustomNames, response \in StatusResponses,
          stats \in SystemStats, address \in StatusAddrs, fail \in FailPoints :
         LET name == db_host(host, custom_name)
             probe == get_monero_hashrate(response)
             cpu_usage == IF is_local(host) THEN stats[1] ELSE None
             ram_usage == IF is_local(host) THEN stats[2] ELSE None
             end == upsert_miner(name, probe.value, cpu_usage, ram_usage, fail)
         IN  IF probe.raised
             THEN /\ status_pc' = "raised"
                  /\ status_call' = [host |-> host, db_host |-> name, address |-> address]
                  /\ UNCHANGED <<miners, miner_history, p2pool_stats, p2pool_history,
                                 alerts, seq, upserts_ok, live_hosts>>
             ELSE /\ Becomes(end.store)
                  /\ upserts_ok' = IF end.raised THEN upserts_ok ELSE upserts_ok + 1
                  /\ live_hosts' = IF end.raised THEN live_hosts
                                   ELSE live_hosts \cup {name}
                  /\ status_call' = [host |-> host, db_host |-> name, address |-> address]
                  /\ status_pc' = IF address # "" THEN "pool" ELSE "done"
    /\ UNCHANGED <<now, purged, deleted, live_addrs, status_result>>

\* probe.py:290-311: get_p2pool_stats has returned; its result is stored
\* unless it is the absent one.
StatusPool ==
    /\ status_pc = "pool"
    /\ \E res \in PoolResults, fail \in FailPoints :
         /\ status_result' = res
         /\ IF StoresPool(res)
            THEN LET end == upsert_p2pool_stats(status_call.address,
                               <<res.blocks_found, res.shares_held, res.payouts_sent,
                                 res.active_shares, res.active_uncles, res.total_shares>>,
                               fail)
                 IN  /\ Becomes(end.store)
                     /\ live_addrs' = IF end.raised THEN live_addrs
                                      ELSE live_addrs \cup {status_call.address}
            ELSE UNCHANGED <<miners, miner_history, p2pool_stats, p2pool_history,
                             alerts, seq, live_addrs>>
    /\ status_pc' = "done"
    /\ UNCHANGED <<now, upserts_ok, purged, deleted, live_hosts, status_call>>

\* probe.py:439: the probe is run again.
StatusAgain ==
    /\ status_pc = "done"
    /\ status_pc' = "start"
    /\ UNCHANGED <<status_call, status_result>>
    /\ UNCHANGED db_vars

StatusNext ==
    \/ Tick /\ UNCHANGED <<pool_vars, nids_vars, scan_vars, status_vars, conc_vars>>
    \/ StatusMiner /\ UNCHANGED <<pool_vars, nids_vars, scan_vars, conc_vars>>
    \/ StatusPool /\ UNCHANGED <<pool_vars, nids_vars, scan_vars, conc_vars>>
    \/ StatusAgain /\ UNCHANGED <<pool_vars, nids_vars, scan_vars, conc_vars>>

----------------------------------------------------------------------------
\* upsert_miner called on separate connections at once (database.py)

\* The connections: one per caller (database.py:24).
Conns == {"c1", "c2"}

\* (hashrate, cpu, ram) of the concurrent calls.
ConcArgs == {<<None, None, None>>, <<5, 1, 2>>}

\* A connection that is not in a call; a call that is over keeps its outcome only.
Closed(outcome) ==
    [pc |-> outcome, host |-> "", timestamp |-> <<0, 0>>, args |-> <<None, None, None>>]

ConcInit ==
    /\ conns = [c \in Conns |-> Closed("idle")]
    /\ lock = ""
    /\ observed = [miners |-> {}, miner_history |-> {}]

\* The state inside the open write transaction, which its connection sees;
\* the committed store when no transaction is open.
Uncommitted ==
    IF lock = "" THEN Store
    ELSE LET call == conns[lock]
             tx == upsert_miner_statements(Store, call.timestamp, call.host,
                                           call.args[1], call.args[2], call.args[3])
         IN  IF call.pc = "stmt1" THEN tx.s1 ELSE tx.s2

\* A store whose readers see the statements of an open transaction.
VisibleDirty(committed, uncommitted) == uncommitted

\* What a connection other than the writer reads: SQLite shows it the last
\* committed state, and the transaction of database.py:22-33 at its commit.
Visible(committed, uncommitted) == committed

\* database.py:24, 141-144: the call connects and takes its timestamp,
\* before its first statement asks for the write lock.
ConcBegin(c) ==
    /\ conns[c].pc = "idle"
    /\ \E host \in Hosts, a \in ConcArgs :
         conns' = [conns EXCEPT ![c] =
                     [pc |-> "connected", host |-> host, timestamp |-> now, args |-> a]]
    /\ UNCHANGED <<lock, observed>>
    /\ UNCHANGED db_vars

\* database.py:147-156: the first statement opens the transaction and takes
\* the write lock, which no other connection holds.
ConcStmt1(c) ==
    /\ conns[c].pc = "connected"
    /\ lock = ""
    /\ lock' = c
    /\ conns' = [conns EXCEPT ![c].pc = "stmt1"]
    /\ UNCHANGED observed
    /\ UNCHANGED db_vars

\* database.py:147-156, 29-31: the lock is held by another connection for
\* longer than the timeout; the statement raises and the call ends.
ConcBusy(c) ==
    /\ conns[c].pc = "connected"
    /\ lock \notin {"", c}
    /\ conns' = [conns EXCEPT ![c] = Closed("raised")]
    /\ UNCHANGED <<lock, observed>>
    /\ UNCHANGED db_vars

\* database.py:159-162: the history row is inserted in the same transaction.
ConcStmt2(c) ==
    /\ conns[c].pc = "stmt1"
    /\ conns' = [conns EXCEPT ![c].pc = "stmt2"]
    /\ UNCHANGED <<lock, observed>>
    /\ UNCHANGED db_vars

\* database.py:28: the commit makes both rows part of the store and gives
\* the lock back.
ConcCommit(c) ==
    /\ conns[c].pc = "stmt2"
    /\ lock = c
    /\ Becomes(Uncommitted)
    /\ upserts_ok' = upserts_ok + 1
    /\ live_hosts' = live_hosts \cup {conns[c].host}
    /\ lock' = ""
    /\ conns' = [conns EXCEPT ![c] = Closed("done")]
    /\ UNCHANGED observed
    /\ UNCHANGED <<now, purged, deleted, live_addrs>>

\* database.py:29-31: the second statement or the commit raises; the
\* transaction is rolled back and the exception goes to the caller.
ConcRollback(c) ==
    /\ conns[c].pc \in {"stmt1", "stmt2"}
    /\ lock = c
    /\ lock' = ""
    /\ conns' = [conns EXCEPT ![c] = Closed("raised")]
    /\ UNCHANGED observed
    /\ UNCHANGED db_vars

\* A reader on a connection of its own (database.py:196-255): the miners
\* and miner_history tables as the store shows them to it at this instant.
ConcRead ==
    /\ observed' = [miners |-> Visible(Store, Uncommitted).miners,
                    miner_history |-> Visible(Store, Uncommitted).miner_history]
    /\ UNCHANGED <<conns, lock>>
    /\ UNCHANGED db_vars

ConcNext ==
    \/ Tick /\ UNCHANGED <<pool_vars, nids_vars, scan_vars, status_vars, conc_vars>>
    \/ \E c \in Conns : ConcBegin(c) /\ UNCHANGED <<pool_vars, nids_vars, scan_vars, status_vars>>
    \/ \E c \in Conns : ConcStmt1(c) /\ UNCHANGED <<pool_vars, nids_vars, scan_vars, status_vars>>
    \/ \E c \in Conns : ConcBusy(c) /\ UNCHANGED <<pool_vars, nids_vars, scan_vars, status_vars>>
    \/ \E c \in Conns : ConcStmt2(c) /\ UNCHANGED <<pool_vars, nids_vars, scan_vars, status_vars>>
    \/ \E c \in Conns : ConcCommit(c) /\ UNCHANGED <<pool_vars, nids_vars, scan_vars, status_vars>>
    \/ \E c \in Conns : ConcRollback(c) /\ UNCHANGED <<pool_vars, nids_vars, scan_vars, status_vars>>
    \/ ConcRead /\ UNCHANGED <<pool_vars, nids_vars, scan_vars, status_vars>>

Init == DbInit /\ PoolInit /\ NidsInit /\ ScanInit /\ StatusInit /\ ConcInit

Next ==
    \/ Tick /\ UNCHANGED <<pool_vars, nids_vars, scan_vars, status_vars, conc_vars>>
    \/ UpsertMiner /\ UNCHANGED <<pool_vars, nids_vars, scan_vars, status_vars, conc_vars>>
    \/ UpsertP2PoolStats /\ UNCHANGED <<pool_vars, nids_vars, scan_vars, status_vars, conc_vars>>
    \/ CleanupOldData /\ UNCHANGED <<pool_vars, nids_vars, scan_vars, status_vars, conc_vars>>
    \/ AddAlert /\ UNCHANGED <<pool_vars, nids_vars, scan_vars, status_vars, conc_vars>>
    \/ AcknowledgeAlert /\ UNCHANGED <<pool_vars, nids_vars, scan_vars, status_vars, conc_vars>>
    \/ AcknowledgeAllAlerts /\ UNCHANGED <<pool_vars, nids_vars, scan_vars, status_vars, conc_vars>>
    \/ DeleteAlert /\ UNCHANGED <<pool_vars, nids_vars, scan_vars, status_vars, conc_vars>>
    \/ DeleteMiner /\ UNCHANGED <<pool_vars, nids_vars, scan_vars, status_vars, conc_vars>>

MinerNext ==
    \/ Tick /\ UNCHANGED <<pool_vars, nids_vars, scan_vars, status_vars, conc_vars>>
    \/ UpsertMiner /\ UNCHANGED <<pool_vars, nids_vars, scan_vars, status_vars, conc_vars>>
    \/ CleanupOldData /\ UNCHANGED <<pool_vars, nids_vars, scan_vars, status_vars, conc_vars>>
    \/ DeleteMiner /\ UNCHANGED <<pool_vars, nids_vars, scan_vars, status_vars, conc_vars>>

\* The store under any sequence of calls.
Spec == Init /\ [][Next]_vars

\* The miner tables under any sequence of upserts, purges and deletes.
MinerSpec == Init /\ [][MinerNext]_vars

\* One run of get_p2pool_stats.
PoolSpec == Init /\ [][PoolNext]_vars

\* The ARP watcher, one packet at a time, as the clock runs.
NidsSpec == Init /\ [][NidsNext]_vars

\* One call of scan_network, host by host.
ScanSpec == Init /\ [][ScanNext]_vars

\* upsert_miner called once on each connection, and a reader, as the clock runs.
ConcSpec == Init /\ [][ConcNext]_vars

\* get_system_status, run again and again as the clock runs.
StatusSpec == Init /\ [][StatusNext]_vars

\* One call of scan_network that keeps running: the probe returns within
\* its timeout (probe.py:49) and the store call returns or raises.
ScanFairSpec == ScanSpec /\ WF_vars(ScanNext)

----------------------------------------------------------------------------
\* Properties of get_p2pool_stats (checked under PoolSpec)

\* get_p2pool_stats returned from its last line (probe.py:215).
ReturnedFinal == pc = "done" /\ Len(requests) = 5

\* The shares of the list are in descending height order.
Descending(shares) ==
    \A i \in 1..(Len(shares) - 1) :
       share_height(shares[i]) >= share_height(shares[i + 1])

\* Entry i of the miner's share list lies in the window.
InWin(i) == share_height(miner_shares[i]) >= current_height - P2POOL_WINDOW_SIZE

\* Position of the first share below the window, or one past the list.
FirstBelow ==
    IF \E i \in DOMAIN miner_shares : ~InWin(i)
    THEN CHOOSE i \in DOMAIN miner_shares :
            ~InWin(i) /\ \A j \in 1..(i - 1) : InWin(j)
    ELSE Len(miner_shares) + 1

\* C1: for a share list in descending height order, the returned
\* active_shares is the number of shares of the whole list with
\* side_height >= current height - window size, and active_uncles the number
\* of those that are flagged uncle.
C1_WindowCounts ==
    (ReturnedFinal /\ Descending(miner_shares)) =>
       /\ result.active_shares = Cardinality({i \in DOMAIN miner_shares : InWin(i)})
       /\ result.active_uncles =
            Cardinality({i \in DOMAIN miner_shares :
                            InWin(i) /\ is_uncle(miner_shares[i])})

\* A descending list of three shares, the second exactly at the start of the
\* window and an uncle, the third below the window.
C1_Witness ==
    /\ ReturnedFinal
    /\ Descending(miner_shares)
    /\ Len(miner_shares) = 3
    /\ share_height(miner_shares[2]) = current_height - P2POOL_WINDOW_SIZE
    /\ is_uncle(miner_shares[2])
    /\ ~InWin(3)
    /\ result.active_shares = 2
    /\ result.active_uncles = 1

\* C2: the walk stops at the first share below the window: no entry after
\* it is examined or counted, whatever its height; heights 1000, 500, -2000
\* at current height 1000 give 2 active shares.
C2_StopsAtFirstBelow ==
    /\ \A i \in examined : i <= FirstBelow
    /\ active_shares = Cardinality({i \in examined : i < FirstBelow})
    /\ pc \in {"blocks", "payouts"} \/ ReturnedFinal =>
         /\ examined = {i \in DOMAIN miner_shares : i <= FirstBelow}
         /\ active_shares = FirstBelow - 1
    /\ ( /\ ReturnedFinal
         /\ current_height = 1000
         /\ Len(miner_shares) = 3
         /\ share_height(miner_shares[1]) = 1000
         /\ share_height(miner_shares[2]) = 500
         /\ share_height(miner_shares[3]) = -2000 ) => result.active_shares = 2

\* The walk has ended leaving an in-window share behind the first share
\* below the window unexamined and uncounted.
C2_Witness ==
    /\ ReturnedFinal
    /\ \E i \in DOMAIN miner_shares : i > FirstBelow /\ InWin(i) /\ i \notin examined
    /\ result.active_shares = FirstBelow - 1
    /\ result.active_shares > 0

\* C3: an empty latest-share response gives a result that is not absent,
\* with 0 active shares, 0 active uncles and the all-time total of the
\* miner-info body (the 'shares' field of the second entry of its 'shares'
\* array, 0 when there is none), and no further request is issued.
C3_EmptyNetwork ==
    (Len(requests) >= 2 /\ requests[2].outcome = "empty") =>
       /\ pc = "done"
       /\ Len(requests) = 2
       /\ result # Absent
       /\ result.active_shares = 0
       /\ result.active_uncles = 0
       /\ result.total_shares =
            (IF Len(shares_data) >= 2 /\ "shares" \in DOMAIN shares_data[2]
             THEN shares_data[2].shares ELSE 0)

\* The network was empty and miner-info had reported 7 shares in all.
C3_Witness ==
    /\ Len(requests) = 2
    /\ requests[2].outcome = "empty"
    /\ Len(shares_data) = 2
    /\ result.total_shares = 7
    /\ result.active_shares = 0

PrimaryRequests == {"miner_info", "last_share", "miner_shares"}

\* C4: when one of the three primary requests fails, get_p2pool_stats
\* returns the tuple of None, raises nothing and issues no later request.
C4_PrimaryFailureAbsent ==
    \A i \in DOMAIN requests :
       (requests[i].name \in PrimaryRequests /\ requests[i].outcome = "fail") =>
          /\ i = Len(requests)
          /\ pc = "done"
          /\ result = Absent

\* The miner-shares request failed after the first two had succeeded.
C4_Witness ==
    /\ Len(requests) = 3
    /\ requests[3] = Request("miner_shares", "fail")
    /\ pc = "done"
    /\ result = Absent

\* The counts a run returns when nothing fails: the shares before the first
\* one below the window, the uncles among them, the miner-info total.
ExpectedCounts ==
    [active_shares |-> FirstBelow - 1,
     active_uncles |->
        Cardinality({i \in DOMAIN miner_shares :
                        i < FirstBelow /\ is_uncle(miner_shares[i])}),
     total_shares |->
        IF Len(shares_data) >= 2 /\ "shares" \in DOMAIN shares_data[2]
        THEN shares_data[2].shares ELSE 0]

\* C5: after three successful primary requests, a failing blocks or payouts
\* request only turns its own field into "N/A": the result is not absent,
\* its active_shares, active_uncles and total_shares are those of a run
\* without the failure, and the payouts request follows a failed blocks
\* request.
C5_SecondaryFailureDegrades ==
    /\ (Len(requests) >= 4 /\ requests[4].outcome = "fail") =>
          /\ pc \in {"payouts", "done"}
          /\ pc = "done" => Len(requests) = 5 /\ result.blocks_found = NA
    /\ (Len(requests) = 5 /\ requests[5].outcome = "fail") =>
          /\ pc = "done"
          /\ result.payouts_sent = NA
    /\ (Len(requests) = 5 /\ requests[4].outcome = "ok") =>
          result.blocks_found = blocks_found /\ blocks_found # NA
    /\ (Len(requests) = 5 /\ requests[5].outcome = "ok") =>
          result.payouts_sent = payouts_count /\ payouts_count # NA
    /\ Len(requests) = 5 =>
          /\ pc = "done"
          /\ result # Absent
          /\ result.active_shares = ExpectedCounts.active_shares
          /\ result.active_uncles = ExpectedCounts.active_uncles
          /\ result.total_shares = ExpectedCounts.total_shares

\* The blocks request failed, the payouts request was made and succeeded.
C5_Witness ==
    /\ pc = "done"
    /\ Len(requests) = 5
    /\ requests[4] = Request("blocks", "fail")
    /\ requests[5] = Request("payouts", "ok")
    /\ result.blocks_found = NA
    /\ result.payouts_sent = 2
    /\ result.active_shares = 2
    /\ result.active_uncles = 1
    /\ result.total_shares = 7

----------------------------------------------------------------------------
\* Properties of SentinelDB (checked under Spec)

\* C6: every upsert_miner call that returns normally adds exactly one row to
\* miner_history, on the insert path and on the update path; while no purge
\* and no delete has taken rows out, miner_history holds as many rows as
\* there were such calls.
C6_OneHistoryRowPerCall ==
    /\ (~purged /\ ~deleted) => Cardinality(miner_history) = upserts_ok
    /\ \A host \in Hosts, a \in MinerArgs :
          LET end == upsert_miner(host, a[1], a[2], a[3], "none")
          IN  /\ ~end.raised
              /\ miner_history \subseteq end.store.miner_history
              /\ Cardinality(end.store.miner_history) = Cardinality(miner_history) + 1

\* Two calls for the same host: the second took the update path.
C6_Witness ==
    /\ ~purged /\ ~deleted
    /\ upserts_ok = 2
    /\ Cardinality(miners) = 1
    /\ Cardinality(miner_history) = 2

\* C7: every miners row and every miner_history row has status "Online"
\* exactly when its hashrate is not null; a hashrate of 0.0 is "Online".
C7_StatusIffHashrate ==
    /\ \A r \in miners :
          /\ r.status \in {"Online", "Offline"}
          /\ r.status = "Online" <=> r.hashrate # None
    /\ \A r \in miner_history :
          /\ r.status \in {"Online", "Offline"}
          /\ r.status = "Online" <=> r.hashrate # None

\* A host seen with hashrate 0.0 and then without a hashrate.
C7_Witness ==
    /\ \E r \in miners : r.hashrate = None /\ r.status = "Offline"
    /\ \E r \in miner_history : r.hashrate = 0 /\ r.status = "Online"
    /\ Cardinality(miners) = 1

\* C8: miners holds at most one row per host and p2pool_stats at most one
\* row per address, and exactly one for every host or address that was
\* upserted and not deleted by the operator since.
C8_OneCurrentRowPerKey ==
    /\ \A h \in Hosts :
          /\ Cardinality({r \in miners : r.host = h}) <= 1
          /\ h \in live_hosts => Cardinality({r \in miners : r.host = h}) = 1
    /\ \A a \in Addrs :
          /\ Cardinality({r \in p2pool_stats : r.miner_address = a}) <= 1
          /\ a \in live_addrs =>
                Cardinality({r \in p2pool_stats : r.miner_address = a}) = 1

\* An address upserted twice, with different statistics at different times.
C8_Witness ==
    /\ live_addrs = {"a1"}
    /\ Cardinality(p2pool_history) = 2
    /\ Cardinality({r.timestamp : r \in p2pool_history}) = 2
    /\ Cardinality({r.active_shares : r \in p2pool_history}) = 2
    /\ Cardinality(p2pool_stats) = 1

\* C9: upsert_miner and upsert_p2pool_stats are atomic.  A call that fails
\* at any point raises and leaves the store as it was; a call that runs
\* through writes the current row and appends one history row, both with
\* the timestamp of the call.
C9_UpsertAtomic ==
    /\ \A host \in Hosts, a \in MinerArgs, fail \in FailPoints :
          LET end == upsert_miner(host, a[1], a[2], a[3], fail)
              added == end.store.miner_history \ miner_history
          IN  IF fail # "none"
              THEN end.raised /\ end.store = Store
              ELSE /\ ~end.raised
                   /\ Cardinality(added) = 1
                   /\ \A h \in added : h.host = host /\ h.timestamp = now
                   /\ \E r \in end.store.miners : r.host = host /\ r.last_seen = now
    /\ \A addr \in Addrs, a \in PoolArgs, fail \in FailPoints :
          LET end == upsert_p2pool_stats(addr, a, fail)
              added == end.store.p2pool_history \ p2pool_history
          IN  IF fail # "none"
              THEN end.raised /\ end.store = Store
              ELSE /\ ~end.raised
                   /\ Cardinality(added) = 1
                   /\ \A h \in added : h.miner_address = addr /\ h.timestamp = now
                   /\ \E r \in end.store.p2pool_stats :
                         r.miner_address = addr /\ r.last_seen = now

\* A host and an address each with a current row and a history row from an
\* earlier call: a further call would rewrite the current row before it
\* appends to history.
C9_Witness ==
    /\ \E r \in miners, h \in miner_history :
          /\ r.host = h.host
          /\ r.last_seen = h.timestamp
          /\ Earlier(r.last_seen, now)
    /\ \E r \in p2pool_stats, h \in p2pool_history :
          /\ r.miner_address = h.miner_address
          /\ r.last_seen = h.timestamp
          /\ Earlier(r.last_seen, now)

\* C10: cleanup_old_data(days) removes from miner_history and from
\* p2pool_history all and only the rows whose timestamp is strictly earlier
\* than now minus days; a row exactly at the cutoff stays.
C10_PurgeStrictlyOlder ==
    \A days \in 0..MaxRetention :
       LET end == cleanup_old_data(days, "none")
           cutoff == MinusDays(now, days)
       IN  /\ ~end.raised
           /\ end.store.miner_history =
                {r \in miner_history : ~Earlier(r.timestamp, cutoff)}
           /\ end.store.p2pool_history =
                {r \in p2pool_history : ~Earlier(r.timestamp, cutoff)}

\* A purge took the older of two miner_history rows and left the newer.
C10_Witness ==
    /\ purged /\ ~deleted
    /\ upserts_ok = 2
    /\ Cardinality(miner_history) = 1
    /\ \A r \in miner_history : r.id = 2

\* C11: cleanup_old_data leaves miners, p2pool_stats and alerts as they are,
\* for every number of days (a negative one puts the cutoff in the future),
\* every store and every way the call ends, also when a current row was last
\* seen before the cutoff.
C11_PurgeLeavesCurrentRows ==
    \A days \in (-1)..MaxRetention, fail \in FailPoints :
       LET end == cleanup_old_data(days, fail)
       IN  /\ end.store.miners = miners
           /\ end.store.p2pool_stats = p2pool_stats
           /\ end.store.alerts = alerts
           /\ end.store.seq = seq

\* A purge emptied miner_history; the current row of the host, written at
\* the instant of the purged history row, and an alert are still there.
C11_Witness ==
    /\ purged /\ ~deleted
    /\ upserts_ok = 1
    /\ miner_history = {}
    /\ \E r \in miners : Earlier(r.last_seen, now)
    /\ alerts # {}

\* C12: acknowledge_alert with an id that no alert has (never handed out,
\* or of a deleted alert) raises nothing and leaves every table as it is.
C12_AcknowledgeUnknownId ==
    \A alert_id \in 0..(seq.alerts + 1) :
       (~\E r \in alerts : r.id = alert_id) =>
          LET end == acknowledge_alert(alert_id, "none")
          IN  ~end.raised /\ end.store = Store

\* Alert 1 was deleted and alert 2 is unacknowledged: ids 0, 1 and 3 match
\* no alert.
C12_Witness ==
    /\ seq.alerts = 2
    /\ Cardinality(alerts) = 1
    /\ \E r \in alerts : r.id = 2 /\ r.acknowledged = 0

\* C13: acknowledge_alert(id), acknowledge_all_alerts() and delete_alert(id)
\* are idempotent: applied a second time, each leaves the alerts table the
\* first application left and raises nothing.
C13_AlertOpsIdempotent ==
    /\ \A alert_id \in 0..(seq.alerts + 1) :
          LET once == acknowledge_alert_from(Store, alert_id, "none")
              twice == acknowledge_alert_from(once.store, alert_id, "none")
          IN  ~twice.raised /\ twice.store.alerts = once.store.alerts
    /\ LET once == acknowledge_all_alerts_from(Store, "none")
           twice == acknowledge_all_alerts_from(once.store, "none")
       IN  ~twice.raised /\ twice.store.alerts = once.store.alerts
    /\ \A alert_id \in 0..(seq.alerts + 1) :
          LET once == delete_alert_from(Store, alert_id, "none")
              twice == delete_alert_from(once.store, alert_id, "none")
          IN  ~twice.raised /\ twice.store.alerts = once.store.alerts

\* One alert was acknowledged and the other is not: a second acknowledge of
\* the first, and a first and second of the other, are all possible here.
C13_Witness ==
    /\ Cardinality(alerts) = 2
    /\ \E r \in alerts : r.acknowledged = 1
    /\ \E r \in alerts : r.acknowledged = 0

----------------------------------------------------------------------------
\* Properties of arp_spoof_detector (checked under NidsSpec)

\* The latest event before event i for the same ip, 0 when there is none.
PrevOf(i) ==
    LET earlier == {j \in 1..(i - 1) : events[j].ip = events[i].ip}
    IN  IF earlier = {} THEN 0 ELSE CHOOSE j \in earlier : \A k \in earlier : k <= j

\* Event i found its ip bound to another mac.
Changes(i) == PrevOf(i) # 0 /\ events[PrevOf(i)].mac # events[i].mac

\* The events that persisted an alert.
Persisted == {i \in DOMAIN events : events[i].outcome = "persisted"}

\* The alert row event i persisted: ids are handed out in order.
AlertOf(i) ==
    CHOOSE r \in alerts : r.id = Cardinality({j \in Persisted : j <= i})

\* Instant t is less than 24 hours after instant u.
WithinCooldown(t, u) == Earlier(t, <<u[1] + 1, u[2]>>)

\* The instants of the clock.
Instants == (MaxRetention..(MaxRetention + MaxDays)) \X Fractions

\* The durable record of the pair was marked alerted less than 24 hours ago.
RecentlyMarked(ip, mac) ==
    \E e \in arp_entries :
       /\ e.ip = ip /\ e.mac = mac
       /\ \E t \in Instants : WithinCooldown(now, t) /\ e.last_alerted = Adapt(t)

\* An alert for the pair was persisted less than 24 hours ago.
RecentlyAlerted(ip, mac) ==
    \E r \in alerts :
       /\ r.source_ip = ip /\ r.source_mac = mac
       /\ WithinCooldown(now, r.timestamp)

\* No alert write has failed.
NoneLost == \A j \in DOMAIN events : events[j].outcome # "lost"

\* The alerts table holds one high-severity row for each event that
\* persisted an alert, with the addresses of the event.
AlertsOfEvents ==
    /\ Cardinality(alerts) = Cardinality(Persisted)
    /\ \A i \in Persisted :
          /\ \E r \in alerts : r.id = Cardinality({j \in Persisted : j <= i})
          /\ AlertOf(i).severity = "high"
          /\ AlertOf(i).source_ip = events[i].ip
          /\ AlertOf(i).source_mac = events[i].mac

\* The first two events of the sequence: a first sighting, then a change.
FirstTwo ==
    (Len(events) >= 2 /\ events[2].mac # events[1].mac /\ NoneLost) =>
       /\ events[1].outcome = "quiet"
       /\ events[2].outcome = "persisted"
       /\ Len(events) = 2 => Cardinality(alerts) = 1

\* (ip=A,mac=M1) then (ip=A,mac=M2) were handled, the second less than 24
\* hours ago, and M3 is a third mac.
AfterTwo(M3) ==
    /\ Len(events) = 2
    /\ NoneLost
    /\ Cardinality({events[1].mac, events[2].mac, M3}) = 3
    /\ WithinCooldown(now, AlertOf(2).timestamp)

\* A change of binding when no alert for the pair was persisted in the last
\* 24 hours persists an alert.
AlertsAgain ==
    \A src_mac \in Macs :
       /\ NoneLost
       /\ Len(events) >= 2
       /\ IsChange(arp_table, events[1].ip, src_mac)
       /\ ~RecentlyAlerted(events[1].ip, src_mac)
       => arp_spoof_detector(1, events[1].ip, src_mac, "none").outcome = "persisted"

\* C14 as stated: (ip=A,mac=M1) then (ip=A,mac=M2) persist exactly one
\* high-severity alert, on the second event; a third event (ip=A,mac=M3)
\* within 24 hours of the second updates the binding to M3 and persists no
\* alert; a change of binding after the cooldown persists an alert again.
C14_Original ==
    /\ AlertsOfEvents
    /\ FirstTwo
    /\ \A M3 \in Macs :
          AfterTwo(M3) =>
             LET end == arp_spoof_detector(1, events[1].ip, M3, "none")
             IN  /\ end.arp_table[events[1].ip] = M3
                 /\ end.store.alerts = alerts
    /\ AlertsAgain

\* C14, amended: the second event persists exactly one high-severity alert;
\* a third event (ip=A,mac=M3) within 24 hours of the second updates the
\* binding to M3 and persists a second alert, as no record of the pair
\* (A,M3) was alerted; an event that changes the binding to a mac for which
\* an alert was persisted less than 24 hours before updates the binding and
\* persists no alert; a change of binding when the cooldown of the pair has
\* expired persists an alert again.
C14_CooldownPerPair ==
    /\ AlertsOfEvents
    /\ FirstTwo
    /\ \A M3 \in Macs :
          AfterTwo(M3) =>
             LET end == arp_spoof_detector(1, events[1].ip, M3, "none")
             IN  /\ end.arp_table[events[1].ip] = M3
                 /\ end.outcome = "persisted"
                 /\ Cardinality(end.store.alerts) = 2
    /\ \A src_mac \in Macs :
          /\ NoneLost
          /\ Len(events) >= 2
          /\ IsChange(arp_table, events[1].ip, src_mac)
          /\ RecentlyAlerted(events[1].ip, src_mac)
          => LET end == arp_spoof_detector(1, events[1].ip, src_mac, "none")
             IN  /\ end.arp_table[events[1].ip] = src_mac
                 /\ end.outcome = "suppressed"
                 /\ end.store.alerts = alerts
    /\ AlertsAgain

\* M1, M2, M3 and back to M2, the last three within 24 hours: the second and
\* third events persisted an alert each, the fourth was held back and
\* rebound the address.
C14_Witness ==
    /\ Len(events) = 4
    /\ NoneLost
    /\ Cardinality({events[1].mac, events[2].mac, events[3].mac}) = 3
    /\ events[4].mac = events[2].mac
    /\ events[2].outcome = "persisted"
    /\ events[3].outcome = "persisted"
    /\ events[4].outcome = "suppressed"
    /\ WithinCooldown(AlertOf(3).timestamp, AlertOf(2).timestamp)
    /\ Earlier(AlertOf(2).timestamp, AlertOf(3).timestamp)
    /\ arp_table[events[4].ip] = events[4].mac
    /\ Cardinality(alerts) = 2

IsChangeOf(src_ip, src_mac) ==
    \E ip \in DOMAIN arp_table : ip = src_ip /\ arp_table[ip] # src_mac

\* C16: an alert is persisted only by an event whose ip was already in the
\* in-memory table with another mac: every alert row comes from such an
\* event, and in every state an event for an ip that is not in the table,
\* or with the mac the ip is bound to, or with an opcode other than request
\* and reply, leaves the alerts table as it is.
C16_AlertOnlyOnChange ==
    /\ \A i \in DOMAIN events :
          IF Changes(i) THEN events[i].outcome \in {"persisted", "suppressed", "lost"}
          ELSE events[i].outcome = "quiet"
    /\ Cardinality(alerts) = Cardinality({i \in Persisted : Changes(i)})
    /\ \A op \in ArpOps, src_ip \in NidsIps \cup {"10.0.0.2"}, src_mac \in Macs :
          (op \notin {1, 2} \/ ~IsChangeOf(src_ip, src_mac)) =>
             arp_spoof_detector(op, src_ip, src_mac, "none").store.alerts = alerts

\* A first sighting, the same binding again after the alerts of a change
\* and a change back: four events, two alerts.
C16_Witness ==
    /\ Len(events) = 4
    /\ events[1].outcome = "quiet"
    /\ events[2].outcome = "persisted"
    /\ events[3].outcome = "persisted"
    /\ events[4].mac = events[3].mac
    /\ events[4].outcome = "quiet"
    /\ Cardinality(alerts) = 2

----------------------------------------------------------------------------
\* Properties of get_monero_hashrate and scan_network (checked under ScanSpec)

\* The answer is a failure or a malformed payload: no answer, no connection,
\* a non-2xx status, a body that is not a JSON object, an object without
\* the hashrate field or without its total field, or with an empty total.
FailedOrMalformed(response) ==
    \/ response.kind \in {"timeout", "connection_error", "http_error",
                          "not_json", "not_object"}
    \/ /\ response.kind = "object"
       /\ \/ "hashrate" \notin DOMAIN response.data
          \/ "total" \notin DOMAIN response.data.hashrate
          \/ response.data.hashrate.total = <<>>

\* C17: get_monero_hashrate never raises, and a timeout, a connection
\* failure, a non-2xx status or a malformed payload (not JSON, hashrate or
\* total field missing, total array empty) makes it return None.
C17_Original ==
    /\ scan_pc # "raised"
    /\ (scan_pc = "store" /\ FailedOrMalformed(scan_response)) => scan_hashrate = None

\* The range is one ip_network accepts: an address with a prefix length
\* from 0 to 32 and no bit set behind the prefix.
ValidRange(range) ==
    /\ range.form = "cidr"
    /\ range.prefix \in 0..32
    /\ range.addr % (2 ^ (32 - range.prefix)) = 0

\* The broadcast address of a valid range.
BroadcastOf(range) == range.addr + 2 ^ (32 - range.prefix) - 1

\* The addresses of a valid range between its network and broadcast address.
Between(range) == {a \in (range.addr + 1)..(BroadcastOf(range) - 1) : TRUE}

\* The scan of a valid range is over.
ScannedValid == scan_pc = "done" /\ ValidRange(network_range)

\* No address was probed twice.
NoRetry == \A i, j \in DOMAIN probes : probes[i] = probes[j] => i = j

C19_FoundCountsPresentStored ==
    /\ found = Cardinality({r \in miner_history : r.hashrate # None})
    /\ found <= Cardinality({i \in DOMAIN probes :
                                scan_pc \notin {"probing", "store"} \/ i < Len(probes)})
    /\ \A r \in miner_history : \E i \in DOMAIN probes : r.host = Str(probes[i])

\* Two hosts answered with a hashrate, 0.0 for the first; the write of the
\* second failed, and found is 1.
C19_Witness ==
    /\ scan_pc = "done"
    /\ Len(probes) = 2
    /\ scan_hashrate = 5
    /\ \A r \in miners : r.host # Str(probes[2])
    /\ \E r \in miner_history : r.host = Str(probes[1]) /\ r.hashrate = 0
    /\ found = 1

\* C20: scan_network called with a range ip_network refuses (text that is
\* no CIDR notation, a prefix out of range, host bits set) returns with no
\* probe issued and nothing written to the store.
C20_MalformedRangeNoScan ==
    (scan_pc # "start" /\ ~ValidRange(network_range)) =>
       /\ scan_pc = "done"
       /\ probes = <<>>
       /\ todo = <<>>
       /\ found = 0
       /\ miners = {} /\ miner_history = {}
       /\ seq = [miner_history |-> 0, p2pool_history |-> 0, alerts |-> 0]

\* scan_network returned on text that is no CIDR notation.
C20_Witness ==
    /\ scan_pc = "done"
    /\ network_range = [form |-> "garbage"]
    /\ probes = <<>>
    /\ miners = {}

\* The host addresses of a valid range, as network.hosts() yields them.
HostsOf(range) ==
    LET all == hosts(ip_network(range))
    IN  {all[i] : i \in DOMAIN all}

\* The addresses probed so far.
Probed == {probes[i] : i \in DOMAIN probes}

\* The rows of a table of the store that belong to a scanned address.
RowsOf(table, ip) == {r \in table : r.host = Str(ip)}

\* While a scan runs and after it: a store failure never leaves
\* scan_network as an exception, the host whose write failed has no row,
\* and when the scan of a valid range is over every host address was
\* probed and every host whose write did not fail has its rows.
C21_Safe ==
    /\ scan_pc # "raised"
    /\ \A ip \in lost : RowsOf(miners, ip) = {} /\ RowsOf(miner_history, ip) = {}
    /\ ScannedValid =>
          /\ Probed = HostsOf(network_range)
          /\ \A ip \in HostsOf(network_range) \ lost :
                /\ Cardinality(RowsOf(miners, ip)) = 1
                /\ Cardinality(RowsOf(miner_history, ip)) = 1

\* C21: a store failure while one host of a scan is recorded does not
\* abort the scan: the result for that host is lost, every remaining host
\* address of the range is still probed and recorded, and the scan
\* terminates normally.
C21_StoreFailureDoesNotAbort == []C21_Safe /\ <>(scan_pc = "done")

\* The scan of a range of two hosts is over: the write of the first host
\* failed, the second host was probed after it and has its rows.
C21_Witness ==
    /\ scan_pc = "done"
    /\ Len(probes) = 2
    /\ probes[1] \in lost
    /\ probes[2] \notin lost
    /\ RowsOf(miners, probes[2]) # {}
    /\ RowsOf(miner_history, probes[2]) # {}
    /\ RowsOf(miners, probes[1]) = {}

----------------------------------------------------------------------------
\* Properties of get_system_status (checked under StatusSpec)

\* C22: in get_system_status the pool reconciliation, absent or not, leaves
\* what the miner upsert of the call wrote as it is, and an absent
\* reconciliation writes neither p2pool_stats nor p2pool_history.
C22_PoolFailureLeavesMiner ==
    [][(status_pc = "pool" /\ status_pc' = "done") =>
         /\ miners' = miners
         /\ miner_history' = miner_history
         /\ seq'.miner_history = seq.miner_history
         /\ status_result' = Absent =>
               /\ p2pool_stats' = p2pool_stats
               /\ p2pool_history' = p2pool_history
               /\ seq'.p2pool_history = seq.p2pool_history]_vars

\* A call with a pool address is over: the reconciliation was absent, the
\* local host is stored under the machine's name, the pool tables are empty.
C22_Witness ==
    /\ status_pc = "done"
    /\ status_call.address = "a1"
    /\ status_result = Absent
    /\ \E r \in miners : r.host = Hostname /\ r.status = "Online"
    /\ miner_history # {}
    /\ p2pool_stats = {}
    /\ p2pool_history = {}

----------------------------------------------------------------------------
\* Properties of concurrent upsert_miner calls (checked under ConcSpec)

\* Every call has returned.
AllReturned == \A c \in Conns : conns[c].pc \in {"done", "raised"}

\* Every call has committed.
AllCommitted == \A c \in Conns : conns[c].pc = "done"

\* The history rows of a host in a table.
HistoryOf(table, host) == {h \in table : h.host = host}

\* C23: under any interleaving of upsert_miner calls on separate
\* connections and of readers, a reader sees the current row a call wrote
\* if and only if it sees the history row the call appended; when no call
\* is in its transaction there is one miners row per host written and one
\* miner_history row per call that committed.
C23_UpsertsVisibleTogether ==
    /\ \A r \in observed.miners :
          \E h \in observed.miner_history :
             /\ h.host = r.host /\ h.timestamp = r.last_seen
             /\ h.hashrate = r.hashrate /\ h.status = r.status
    /\ \A h \in observed.miner_history : \E r \in observed.miners : r.host = h.host
    /\ \A r1, r2 \in miners : r1.host = r2.host => r1 = r2
    /\ {r.host : r \in miners} = live_hosts
    /\ Cardinality(miner_history) = upserts_ok
    /\ AllCommitted => Cardinality(miner_history) = Cardinality(Conns)

\* Both calls were for the same host and have committed, and a reader has
\* seen the one miners row with the two history rows.
C23_Witness ==
    /\ AllCommitted
    /\ Cardinality(miners) = 1
    /\ Cardinality(observed.miners) = 1
    /\ Cardinality(observed.miner_history) = 2
    /\ observed.miners = miners

\* C27: a miners row of host h equals the newest miner_history row of h in
\* timestamp, hashrate, cpu, ram and status, last_seen being the largest
\* history timestamp of h, after any upsert_miner calls, two concurrent
\* calls that commit in the opposite order of their timestamps included.
C27_Original ==
    \A r \in miners :
       \E h \in HistoryOf(miner_history, r.host) :
          /\ \A g \in HistoryOf(miner_history, r.host) : ~Earlier(h.timestamp, g.timestamp)
          /\ h.timestamp = r.last_seen
          /\ h.hashrate = r.hashrate
          /\ h.cpu_usage = r.cpu_usage
          /\ h.ram_usage = r.ram_usage
          /\ h.status = r.status

----------------------------------------------------------------------------
\* Further properties of arp_spoof_detector (checked under NidsSpec)

\* C24: after arp_spoof_detector has handled a request or reply (ip, mac)
\* the in-memory table maps ip to mac, whatever became of the event (first
\* sighting, unchanged binding, alerted change, held-back change, alert
\* lost), so that an event is taken for a change exactly when its mac
\* differs from the one of the event before it for the same ip.
C24_TableFollowsLastEvent ==
    /\ \A ip \in NidsIps :
          (\E i \in DOMAIN events : events[i].ip = ip) =>
             LET last == CHOOSE i \in DOMAIN events :
                            /\ events[i].ip = ip
                            /\ \A j \in DOMAIN events : events[j].ip = ip => j <= i
             IN  ip \in DOMAIN arp_table /\ arp_table[ip] = events[last].mac
    /\ \A i \in DOMAIN events : (events[i].outcome # "quiet") <=> Changes(i)

\* Four events for one ip: a first sighting, a change that alerted, a
\* change back that alerted, and a change held back; the table holds the
\* mac of the fourth.
C24_Witness ==
    /\ Len(events) = 4
    /\ events[1].outcome = "quiet"
    /\ events[2].outcome = "persisted"
    /\ events[3].outcome = "persisted"
    /\ events[4].outcome = "suppressed"
    /\ arp_table[events[4].ip] = events[4].mac
    /\ arp_table[events[4].ip] # events[3].mac

\* C28: the durable record of an (ip, mac) pair is marked alerted only
\* when an alert row for that event was persisted: every mark has its
\* alert row, and an event is held back only for a pair that has one.
C28_Original ==
    /\ \A e \in arp_entries :
          e.last_alerted # Null =>
             \E a \in alerts :
                /\ a.source_ip = e.ip /\ a.source_mac = e.mac
                /\ Adapt(a.timestamp) = e.last_alerted
    /\ \A i \in DOMAIN events :
          events[i].outcome = "suppressed" =>
             \E a \in alerts :
                a.source_ip = events[i].ip /\ a.source_mac = events[i].mac

----------------------------------------------------------------------------
\* Further properties of scan_network (checked under ScanSpec and ScanFairSpec)

\* The number of host addresses of the range being scanned.
NumHosts == Len(probes) + Len(todo)

\* While a scan runs and after it: the probes in flight are at most one,
\* hence at most the number of hosts and at most 50, and none when
\* scan_network has returned.
C25_Safe ==
    /\ Cardinality(in_flight) <= (IF NumHosts < 50 THEN NumHosts ELSE 50)
    /\ Cardinality(in_flight) <= 1
    /\ in_flight \subseteq Probed
    /\ scan_pc = "done" => in_flight = {}

\* C25: during a scan at most min(number of host addresses, 50) probes are
\* in flight at any instant, scan_network does not return while a probe of
\* the scan is outstanding, and the scan of every range ends.
C25_ProbesJoined == []C25_Safe /\ <>[](scan_pc = "done" /\ in_flight = {})

\* The probe of the second and last host of a range is in flight, alone.
C25_Witness ==
    /\ scan_pc = "probing"
    /\ Len(probes) = 2
    /\ todo = <<>>
    /\ in_flight = {probes[2]}

\* C30: when scan_network has completed on a valid range and no store
\* write failed, every host address of the range has one miners row and
\* one miner_history row, the history holding nothing else; a host whose
\* probe was absent is stored with status "Offline" and a null hashrate,
\* any other with status "Online" and its hashrate.
C30_ScanRecordsEveryHost ==
    /\ (ScannedValid /\ lost = {}) =>
          /\ \A ip \in HostsOf(network_range) :
                /\ Cardinality(RowsOf(miners, ip)) = 1
                /\ Cardinality(RowsOf(miner_history, ip)) = 1
          /\ Cardinality(miner_history) = Cardinality(HostsOf(network_range))
    /\ (scan_pc \in {"loop", "done"} /\ probes # <<>> /\ probes[Len(probes)] \notin lost) =>
          \A table \in {miners, miner_history} :
             \E r \in RowsOf(table, probes[Len(probes)]) :
                /\ r.hashrate = scan_hashrate
                /\ r.status = IF scan_hashrate = None THEN "Offline" ELSE "Online"

\* The scan of a range of two hosts is over and no write failed: the first
\* host answered with a hashrate, the probe of the second was absent, and
\* the second is stored "Offline" with a null hashrate.
C30_Witness ==
    /\ scan_pc = "done"
    /\ Len(probes) = 2
    /\ lost = {}
    /\ scan_hashrate = None
    /\ \E r \in RowsOf(miners, probes[1]) : r.status = "Online"
    /\ \E r \in RowsOf(miners, probes[2]) : r.status = "Offline" /\ r.hashrate = None
    /\ Cardinality(miner_history) = 2

----------------------------------------------------------------------------
\* The operator's delete (checked under MinerSpec)

\* The hosts the dashboard offers a delete button for.
Deletable == {r.host : r \in miners}

\* C26 as stated: deleting a current miner row leaves the miner_history
\* rows of the deleted host in the store.
C26_Original ==
    \A host \in Deletable : delete_miner(host).miner_history = miner_history

\* C26, amended: deleting a current miner row also deletes the
\* miner_history rows of that host and no other row: no history row is
\* ever left without the current row of its host, and the rows of the
\* other hosts and the other tables stay.
C26_DeleteRemovesHistory ==
    /\ \A h \in miner_history : h.host \in live_hosts /\ h.host \in Deletable
    /\ \A host \in Deletable :
          LET after == delete_miner(host)
          IN  /\ \A h \in miner_history : h \in after.miner_history <=> h.host # host
              /\ \A r \in miners : r \in after.miners <=> r.host # host
              /\ after.miner_history \subseteq miner_history
              /\ after.miners \subseteq miners
              /\ after.p2pool_stats = p2pool_stats
              /\ after.p2pool_history = p2pool_history
              /\ after.alerts = alerts

\* Two hosts were stored and one of them deleted: the store has the
\* current row and the history row of the other one only.
C26_Witness ==
    /\ deleted
    /\ upserts_ok = 2
    /\ Cardinality(miners) = 1
    /\ Cardinality(miner_history) = 1
    /\ \A h \in miner_history : \E r \in miners : r.host = h.host

----------------------------------------------------------------------------
\* The counts of a pool result (checked under PoolSpec)

\* C29: every result of get_p2pool_stats that is not the absent one has
\* 0 <= active_uncles <= active_shares <= the number of shares in the
\* miner's share list, and its shares_held equals its active_shares,
\* whatever the order of the list; the counters of the loop keep that
\* order while it runs.
C29_CountsOrdered ==
    /\ pc \in {"walk", "blocks", "payouts"} =>
          /\ 0 <= active_uncles
          /\ active_uncles <= active_shares
          /\ active_shares <= Len(miner_shares)
    /\ (pc = "done" /\ result # Absent) =>
          /\ 0 <= result.active_uncles
          /\ result.active_uncles <= result.active_shares
          /\ result.active_shares <= Len(miner_shares)
          /\ result.shares_held = result.active_shares

\* A run returned its final result for a list of three shares that is not
\* in descending order of height: two of them counted, one an uncle.
C29_Witness ==
    /\ ReturnedFinal
    /\ Len(miner_shares) = 3
    /\ ~Descending(miner_shares)
    /\ result.active_shares = 2
    /\ result.active_uncles = 1
    /\ result.shares_held = 2
    /\ result.total_shares # 2
====
